---- MODULE Spec2Model ----
(***************************************************************************)
(* Model of the cafe-menu REST service (src/index.js): four Express        *)
(* handlers over one Spanner table, Menu.  Every handler is cut at its     *)
(* awaits: the synchronous prefix (destructuring, id minting, validation)  *)
(* is one step, every store call (runTransactionAsync, database.run) is    *)
(* one atomic step at the store, and the continuation that builds the      *)
(* response is folded into the last store call of the handler.  GET /menu  *)
(* has no synchronous prefix of its own and is one step.                   *)
(*                                                                         *)
(* JavaScript values are encoded as tagged strings so that values of       *)
(* different types stay comparable: "undefined", "null", "s:<text>",       *)
(* "n:<number>", "b:<boolean>".                                            *)
(***************************************************************************)
EXTENDS Integers, Sequences, FiniteSets

VARIABLES
    store,    \* the Menu table: a set of rows, at most one per MenuId
    clock,    \* the largest commit timestamp the store has assigned
    nextId,   \* the next identifier uuidv4() returns (never reused)
    inserted, \* identifiers of the rows ever inserted (what a client can learn)
    req,      \* per slot: the locals and position of the handler running in it
    last,     \* the response the latest step sent, with the request it answers, if any
    started,  \* number of requests received since the initial state
    hist      \* observation of the run, read by the properties only

vars == <<store, clock, nextId, inserted, req, last, started, hist>>

\* ------------------------------------------------------------------ bounds
\* Requests received when requests overlap.
MaxRequests == 4

\* Requests received when they are served one at a time.
MaxSerial == 1

Slots == 1..2

\* An identifier no POST ever minted (a PUT or DELETE with an arbitrary :id).
NoSuchId == 0

\* ------------------------------------------------------------- JS values
Undefined == "undefined"
Null == "null"

\* !v
Not(v) == v \in {Undefined, Null, "s:", "n:0", "b:false"}

\* v == null
LooseEqNull(v) == v \in {Undefined, Null}

NameValues == {Undefined, Null, "s:", "n:0", "s:Latte"}
DescriptionValues == {Undefined, Null, "s:", "b:false", "s:Hot"}
PriceValues == {Undefined, Null, "n:0", "n:-1"}
AvailableValues == {Undefined, Null, "b:false", "b:true"}

\* Every JSON body the validation is exercised on.
AllBodies ==
    [name : NameValues, description : DescriptionValues,
     price : PriceValues, available : AvailableValues]

NoBody ==
    [name |-> Undefined, description |-> Undefined,
     price |-> Undefined, available |-> Undefined]

Latte(price, available) ==
    [name |-> "s:Latte", description |-> "s:Hot", price |-> price, available |-> available]

\* The bodies used where requests overlap: a free, unavailable item, an item
\* with a negative price, and a body without "available".
Bodies == {Latte("n:0", "b:false"), Latte("n:-1", "b:true"), Latte("n:0", Undefined)}

\* ------------------------------------------------------------ validation
\* Mutants of the validation: the check of "available" left out; price and
\* available tested with ! like the two strings.
InvalidInput_NoAvailable(b) ==
    Not(b.name) \/ Not(b.description) \/ LooseEqNull(b.price)

InvalidInput_AllFalsy(b) ==
    Not(b.name) \/ Not(b.description) \/ Not(b.price) \/ Not(b.available)

InvalidInput(b) ==
    Not(b.name) \/ Not(b.description) \/ LooseEqNull(b.price) \/ LooseEqNull(b.available)

\* ----------------------------------------------------------------- store
RowsById(rows, id) == {row \in rows : row.MenuId = id}

\* Mutant of the INSERT: the name and description parameters exchanged.
InsertRow_Swapped(rows, id, b, ts) ==
    rows \cup {[MenuId |-> id, Name |-> b.description, Description |-> b.name,
                Price |-> b.price, Available |-> b.available, CreatedAt |-> ts]}

InsertRow(rows, id, b, ts) ==
    rows \cup {[MenuId |-> id, Name |-> b.name, Description |-> b.description,
                Price |-> b.price, Available |-> b.available, CreatedAt |-> ts]}

\* Mutants of the UPDATE: no WHERE clause; an upsert.
UpdateRows_NoWhere(rows, id, b) ==
    {[row EXCEPT !.Name = b.name, !.Description = b.description,
                 !.Price = b.price, !.Available = b.available] : row \in rows}

UpdateRows_Upsert(rows, id, b) ==
    IF RowsById(rows, id) = {}
       THEN rows \cup {[MenuId |-> id, Name |-> b.name, Description |-> b.description,
                        Price |-> b.price, Available |-> b.available, CreatedAt |-> clock]}
       ELSE UpdateRows_NoWhere(RowsById(rows, id), id, b) \cup (rows \ RowsById(rows, id))

UpdateRows(rows, id, b) ==
    {IF row.MenuId = id
        THEN [row EXCEPT !.Name = b.name, !.Description = b.description,
                         !.Price = b.price, !.Available = b.available]
        ELSE row : row \in rows}

\* Mutant of the DELETE: no WHERE clause.
DeleteRows_NoWhere(rows, id) == {row \in rows : FALSE}

DeleteRows(rows, id) == {row \in rows : row.MenuId # id}

\* PENDING_COMMIT_TIMESTAMP(): later than every commit that preceded the start
\* of the transaction; two transactions that overlap may get the same value.
CommitTimestamps(begin) ==
    {ts \in {clock, clock + 1} : ts > begin}

RECURSIVE SeqsOf(_)
SeqsOf(S) ==
    IF S = {} THEN {<<>>}
    ELSE UNION {{<<x>> \o s : s \in SeqsOf(S \ {x})} : x \in S}

\* Mutant of the ORDER BY: ascending.
OrderByCreatedAtDesc_Asc(rows) ==
    {s \in SeqsOf(rows) : \A i \in 1..(Len(s) - 1) : s[i].CreatedAt <= s[i + 1].CreatedAt}

\* ORDER BY CreatedAt DESC: every order of the rows with non-increasing CreatedAt.
OrderByCreatedAtDesc(rows) ==
    {s \in SeqsOf(rows) : \A i \in 1..(Len(s) - 1) : s[i].CreatedAt >= s[i + 1].CreatedAt}

\* The renaming of the store's columns to the response's keys.
ToItem(row) ==
    [menuId |-> row.MenuId, name |-> row.Name, description |-> row.Description,
     price |-> row.Price, available |-> row.Available, createdAt |-> row.CreatedAt]

MapToItems(s) == [i \in 1..Len(s) |-> ToItem(s[i])]

\* -------------------------------------------------------------- requests
Idle ==
    [method |-> "none", id |-> NoSuchId, body |-> NoBody, pc |-> "idle", begin |-> 0]

NoResponse == [status |-> 0, kind |-> "none", items |-> <<>>]

\* What the properties record of a request: the store calls it made, whether it
\* changed the table, the POSTs answered before it began, whether its id had no
\* row when it began, and whether no other request on its id overlapped it.
NoObs == [calls |-> 0, changed |-> FALSE, pred |-> {}, absent |-> FALSE, alone |-> FALSE]

NoLast == [req |-> Idle, res |-> NoResponse, obs |-> NoObs]

\* A request is taken by the first slot with no handler running.
Free(r, max) ==
    /\ started < max
    /\ req[r].pc = "idle"
    /\ \A o \in Slots : o < r => req[o].pc # "idle"

Receive(method, id, b, pc) ==
    [Idle EXCEPT !.method = method, !.id = id, !.body = b, !.pc = pc, !.begin = clock]

\* res.status(status).json(...): the response leaves and the handler is over.
Respond(q, obs, status, kind, items) ==
    [req |-> [q EXCEPT !.pc = "done"],
     res |-> [status |-> status, kind |-> kind, items |-> items],
     obs |-> obs]

InFlightOn(o, id) == req[o].pc # "idle" /\ req[o].method # "GET" /\ req[o].id = id

\* The observation for a write request on id received in slot r.
NewObs(r, id, pred) ==
    [calls |-> 0, changed |-> FALSE, pred |-> pred, absent |-> RowsById(store, id) = {},
     alone |-> \A o \in Slots \ {r} : ~InFlightOn(o, id)]

\* The requests in flight on id stop being alone once another one arrives.
Joined(r, id) ==
    [o \in Slots |->
        IF o # r /\ InFlightOn(o, id) THEN [hist.slot[o] EXCEPT !.alone = FALSE]
        ELSE hist.slot[o]]

Called(r) == [hist.slot[r] EXCEPT !.calls = @ + 1, !.changed = @ \/ store' # store]

Init ==
    /\ store = {}
    /\ clock = 0
    /\ nextId = 1
    /\ inserted = {}
    /\ req = [r \in Slots |-> Idle]
    /\ last = NoLast
    /\ started = 0
    /\ hist = [created |-> {}, touched |-> {}, slot |-> [r \in Slots |-> NoObs]]

\* ------------------------------------------------------------ POST /menu
PostStart(r, b, max) ==
    /\ Free(r, max)
    /\ started' = started + 1
    /\ nextId' = nextId + 1
    /\ LET obs == NewObs(r, nextId, {c.id : c \in hist.created}) IN
          IF InvalidInput(b)
             THEN /\ last' = Respond(Receive("POST", nextId, b, "start"), obs,
                                     400, "error", <<>>)
                  /\ UNCHANGED <<req, hist>>
             ELSE /\ req' = [req EXCEPT ![r] = Receive("POST", nextId, b, "txn")]
                  /\ hist' = [hist EXCEPT !.slot[r] = obs]
                  /\ last' = NoLast
    /\ UNCHANGED <<store, clock, inserted>>

PostCommit(r) ==
    /\ req[r].pc = "txn" /\ req[r].method = "POST"
    /\ \E ts \in CommitTimestamps(req[r].begin) :
          /\ store' = InsertRow(store, req[r].id, req[r].body, ts)
          /\ clock' = ts
    /\ inserted' = inserted \cup {req[r].id}
    /\ \E now \in {clock, clock + 1} :
          last' = Respond(req[r], Called(r), 201, "item",
                          <<[menuId |-> req[r].id, name |-> req[r].body.name,
                             description |-> req[r].body.description,
                             price |-> req[r].body.price,
                             available |-> req[r].body.available, createdAt |-> now]>>)
    /\ req' = [req EXCEPT ![r] = Idle]
    /\ hist' = [hist EXCEPT !.slot[r] = NoObs,
                  !.created = @ \cup {[id |-> req[r].id, body |-> req[r].body,
                                       pred |-> hist.slot[r].pred]}]
    /\ UNCHANGED <<nextId, started>>

\* ------------------------------------------------------------- GET /menu
Get(r, max) ==
    /\ Free(r, max)
    /\ started' = started + 1
    /\ \E rows \in OrderByCreatedAtDesc(store) :
          last' = Respond(Receive("GET", NoSuchId, NoBody, "read"),
                          [NoObs EXCEPT !.calls = 1], 200, "list", MapToItems(rows))
    /\ UNCHANGED <<store, clock, nextId, inserted, req, hist>>

GetFails(r, max) ==
    /\ Free(r, max)
    /\ started' = started + 1
    /\ last' = Respond(Receive("GET", NoSuchId, NoBody, "read"),
                       [NoObs EXCEPT !.calls = 1], 500, "errorDetails", <<>>)
    /\ UNCHANGED <<store, clock, nextId, inserted, req, hist>>

\* --------------------------------------------------------- PUT /menu/:id
PutStart(r, id, b, max) ==
    /\ Free(r, max)
    /\ started' = started + 1
    /\ LET obs == NewObs(r, id, {}) IN
          IF InvalidInput(b)
             THEN /\ last' = Respond(Receive("PUT", id, b, "start"), obs, 400, "error", <<>>)
                  /\ UNCHANGED <<req, hist>>
             ELSE /\ req' = [req EXCEPT ![r] = Receive("PUT", id, b, "txn")]
                  /\ hist' = [hist EXCEPT !.slot = [Joined(r, id) EXCEPT ![r] = obs],
                                          !.touched = @ \cup {id}]
                  /\ last' = NoLast
    /\ UNCHANGED <<store, clock, nextId, inserted>>

PutCommit(r) ==
    /\ req[r].pc = "txn" /\ req[r].method = "PUT"
    /\ store' = UpdateRows(store, req[r].id, req[r].body)
    /\ req' = [req EXCEPT ![r].pc = "read"]
    /\ hist' = [hist EXCEPT !.slot[r] = Called(r)]
    /\ last' = NoLast
    /\ UNCHANGED <<clock, nextId, inserted, started>>

PutRead(r) ==
    /\ req[r].pc = "read" /\ req[r].method = "PUT"
    /\ UNCHANGED <<store, clock, nextId, inserted, started>>
    /\ LET rows == RowsById(store, req[r].id) IN
          IF rows = {}
             THEN last' = Respond(req[r], Called(r), 404, "error", <<>>)
             ELSE \E row \in rows :
                     last' = Respond(req[r], Called(r), 200, "item", <<ToItem(row)>>)
    /\ req' = [req EXCEPT ![r] = Idle]
    /\ hist' = [hist EXCEPT !.slot[r] = NoObs]

\* ------------------------------------------------------ DELETE /menu/:id
DeleteStart(r, id, max) ==
    /\ Free(r, max)
    /\ started' = started + 1
    /\ req' = [req EXCEPT ![r] = Receive("DELETE", id, NoBody, "txn")]
    /\ hist' = [hist EXCEPT !.slot = [Joined(r, id) EXCEPT ![r] = NewObs(r, id, {})],
                            !.touched = @ \cup {id}]
    /\ last' = NoLast
    /\ UNCHANGED <<store, clock, nextId, inserted>>

DeleteCommit(r) ==
    /\ req[r].pc = "txn" /\ req[r].method = "DELETE"
    /\ store' = DeleteRows(store, req[r].id)
    /\ last' = Respond(req[r], Called(r), 200, "success", <<>>)
    /\ req' = [req EXCEPT ![r] = Idle]
    /\ hist' = [hist EXCEPT !.slot[r] = NoObs]
    /\ UNCHANGED <<clock, nextId, inserted, started>>

\* ------------------------------------------------------ storage failures
\* The store call the request is waiting on rejects; the handler's catch
\* answers 500 {error, details}.  A rejected transaction leaves nothing.
StoreFails(r) ==
    /\ req[r].pc \in {"txn", "read"}
    /\ UNCHANGED <<store, clock, nextId, inserted, started>>
    /\ last' = Respond(req[r], Called(r), 500, "errorDetails", <<>>)
    /\ req' = [req EXCEPT ![r] = Idle]
    /\ hist' = [hist EXCEPT !.slot[r] = NoObs]

\* ---------------------------------------------------------------- system
Targets == inserted \cup {NoSuchId}

Step(r, ToPost, ToPut, max) ==
    \/ \E b \in ToPost : PostStart(r, b, max)
    \/ PostCommit(r)
    \/ Get(r, max)
    \/ GetFails(r, max)
    \/ \E id \in Targets, b \in ToPut : PutStart(r, id, b, max)
    \/ PutCommit(r)
    \/ PutRead(r)
    \/ \E id \in Targets : DeleteStart(r, id, max)
    \/ DeleteCommit(r)
    \/ StoreFails(r)

Next == \E r \in Slots : Step(r, Bodies, Bodies, MaxRequests)

Spec == Init /\ [][Next]_vars

\* One request at a time, over every body of AllBodies, on the empty table or
\* on the table left by one POST of an item.
InitSerial ==
    \/ Init
    \/ \E b \in {c \in AllBodies : ~InvalidInput(c)} :
          /\ store = InsertRow({}, 1, b, 1)
          /\ clock = 1
          /\ nextId = 2
          /\ inserted = {1}
          /\ req = [r \in Slots |-> Idle]
          /\ last = NoLast
          /\ started = 0
          /\ hist = [created |-> {[id |-> 1, body |-> b, pred |-> {}]}, touched |-> {},
                     slot |-> [r \in Slots |-> NoObs]]

NextSerial == Step(1, AllBodies, AllBodies, MaxSerial)

SpecSerial == InitSerial /\ [][NextSerial]_vars

\* ============================================================ properties
Fields == {"name", "description", "price", "available"}

Sent == last # NoLast

Answers(methods) == Sent /\ last.req.method \in methods

\* The item carries the four values of the body.
Carries(item, b) ==
    /\ item.name = b.name
    /\ item.description = b.description
    /\ item.price = b.price
    /\ item.available = b.available

Positions(items, id) == {i \in 1..Len(items) : items[i].menuId = id}

\* C1: a POST or PUT whose body lacks (or has null for) one of name,
\* description, price, available is answered 400 in the step that receives
\* it, without a store call, with the table and every handler left as they
\* were; no such body is ever held by a handler that goes on to the store.
C1_MissingFieldRejectedBeforeStore ==
    [][/\ \A r \in Slots :
             req'[r].pc # "idle" /\ req'[r].method \in {"POST", "PUT"}
                => \A f \in Fields : req'[r].body[f] \notin {Undefined, Null}
       /\ (/\ last' # NoLast
           /\ last'.req.method \in {"POST", "PUT"}
           /\ \E f \in Fields : last'.req.body[f] \in {Undefined, Null})
             => /\ last'.res.status = 400
                /\ last'.res.kind = "error"
                /\ last'.obs.calls = 0
                /\ ~last'.obs.changed
                /\ store' = store
                /\ req' = req]_vars

C1_Witness ==
    /\ Answers({"PUT"})
    /\ last.res.status = 400
    /\ last.req.body.price = Null
    /\ RowsById(store, last.req.id) # {}

\* C2, as stated: 400 exactly when name or description is absent, null or
\* empty, or price or available is absent or null.
C2_RejectsExactlyAbsentNullEmpty ==
    Answers({"POST", "PUT"}) =>
        (last.res.status = 400 <=>
            \/ last.req.body.name \in {Undefined, Null, "s:"}
            \/ last.req.body.description \in {Undefined, Null, "s:"}
            \/ last.req.body.price \in {Undefined, Null}
            \/ last.req.body.available \in {Undefined, Null})

\* C2, amended: 400 exactly when name or description is falsy (absent, null,
\* the empty string, the number 0 or false), or price or available is absent
\* or null; a body with a non-empty name and description, price 0 or negative
\* and available false is not answered 400 and reaches the store.
C2_RejectsExactlyFalsyOrNullish ==
    Answers({"POST", "PUT"}) =>
        /\ last.res.status = 400 <=>
              \/ last.req.body.name \in {Undefined, Null, "s:", "n:0", "b:false"}
              \/ last.req.body.description \in {Undefined, Null, "s:", "n:0", "b:false"}
              \/ last.req.body.price \in {Undefined, Null}
              \/ last.req.body.available \in {Undefined, Null}
        /\ (/\ last.req.body.name = "s:Latte"
            /\ last.req.body.description = "s:Hot"
            /\ last.req.body.price \in {"n:0", "n:-1"}
            /\ last.req.body.available = "b:false")
              => last.res.status # 400 /\ last.obs.calls >= 1

C2_Witness ==
    /\ Answers({"POST"})
    /\ last.res.status = 201
    /\ last.req.body.price = "n:0"
    /\ last.req.body.available = "b:false"
    /\ \E row \in store : row.MenuId = last.req.id /\ row.Price = "n:0"

\* C3: a GET answered 200 lists, for every POST answered 201 whose id no PUT
\* or DELETE was issued for, exactly one item with that id, carrying the
\* values submitted in the POST.
C3_CreatedItemsAreListed ==
    (Answers({"GET"}) /\ last.res.status = 200) =>
        \A c \in hist.created :
            c.id \notin hist.touched =>
                /\ Cardinality(Positions(last.res.items, c.id)) = 1
                /\ \A i \in Positions(last.res.items, c.id) : Carries(last.res.items[i], c.body)

C3_Witness ==
    /\ Answers({"GET"})
    /\ last.res.status = 200
    /\ Len(last.res.items) = 2
    /\ \E c \in hist.created : c.id \notin hist.touched /\ c.body.price = "n:-1"
    /\ hist.touched # {}

\* C4, as stated: a PUT answered 200 returns the id of the request and the
\* four values the request submitted.
C4_PutAnswersItsOwnValues ==
    (Answers({"PUT"}) /\ last.res.status = 200) =>
        /\ Len(last.res.items) = 1
        /\ last.res.items[1].menuId = last.req.id
        /\ Carries(last.res.items[1], last.req.body)

\* C5: a PUT with a valid body on an id that had no row when the request was
\* received, overlapped by no other request on that id and meeting no store
\* failure, is answered 404 with an error body without item fields, has not
\* changed the table, and leaves the id without a row.
C5_PutOnMissingIdIs404 ==
    (/\ Answers({"PUT"})
     /\ last.res.status \notin {400, 500}
     /\ last.obs.absent
     /\ last.obs.alone)
        => /\ last.res.status = 404
           /\ last.res.kind = "error"
           /\ last.res.items = <<>>
           /\ ~last.obs.changed
           /\ RowsById(store, last.req.id) = {}

C5_Witness ==
    /\ Answers({"PUT"})
    /\ last.res.status = 404
    /\ last.obs.absent /\ last.obs.alone
    /\ last.req.id \in inserted
    /\ store # {}

\* C6: a DELETE is answered 200 {success: true} unless the store fails; the
\* step that commits it removes the rows with its id and no other row, and
\* leaves the table as it is when the id has no row (so a second DELETE of
\* the same id changes nothing).
C6_DeleteIsIdempotent ==
    [][(last' # NoLast /\ last'.req.method = "DELETE")
          => /\ last'.res.status \in {200, 500}
             /\ last'.res.status = 500 => store' = store
             /\ last'.res.status = 200 =>
                   /\ last'.res.kind = "success"
                   /\ \A row \in store : row \in store' <=> row.MenuId # last'.req.id
                   /\ store' \subseteq store
                   /\ RowsById(store, last'.req.id) = {} => store' = store]_vars

C6_Witness ==
    /\ Answers({"DELETE"})
    /\ last.res.status = 200
    /\ last.req.id \in inserted
    /\ ~last.obs.changed
    /\ store # {}

\* C7: no step changes the createdAt of a row that stays in the table, and
\* the step that commits a PUT keeps the set of identifiers, leaves every row
\* with another identifier as it is, and changes in the row with its id only
\* name, description, price and available.
PutCommits(r) ==
    req[r].method = "PUT" /\ req[r].pc = "txn" /\ req'[r].pc = "read"

C7_PutChangesOnlyFourFields ==
    [][/\ \A row \in store : \A row2 \in store' :
             row2.MenuId = row.MenuId => row2.CreatedAt = row.CreatedAt
       /\ \A r \in Slots :
             PutCommits(r) =>
                /\ Cardinality(store') = Cardinality(store)
                /\ \A row \in store :
                      IF row.MenuId = req[r].id
                         THEN \E row2 \in store' :
                                 /\ row2.MenuId = row.MenuId
                                 /\ row2.CreatedAt = row.CreatedAt
                                 /\ row2.Name = req[r].body.name
                                 /\ row2.Description = req[r].body.description
                                 /\ row2.Price = req[r].body.price
                                 /\ row2.Available = req[r].body.available
                         ELSE row \in store']_vars

C7_Witness ==
    \E c \in hist.created, row \in store, other \in store :
        /\ row.MenuId = c.id
        /\ row.Price # c.body.price
        /\ other.MenuId # c.id
        /\ \E r \in Slots : req[r].method = "PUT" /\ req[r].pc = "read" /\ req[r].id = c.id

\* C8, as stated: a POST, PUT or DELETE answered 500 carries {error, details}
\* and has left no change in the table.
C8_FailureLeavesNoEffect ==
    (Answers({"POST", "PUT", "DELETE"}) /\ last.res.status = 500) =>
        last.res.kind = "errorDetails" /\ ~last.obs.changed

\* C9: a GET answered 200 lists every stored row once, by createdAt
\* descending; of two created items the one whose POST was answered before the
\* other POST was received comes later in the list, whether or not a PUT
\* touched either.
C9_ListIsNewestFirst ==
    (Answers({"GET"}) /\ last.res.status = 200) =>
        LET items == last.res.items IN
        /\ Len(items) = Cardinality(store)
        /\ \A row \in store : \E i \in 1..Len(items) : items[i] = ToItem(row)
        /\ \A i \in 1..Len(items), j \in 1..Len(items) :
              i < j => items[i].createdAt >= items[j].createdAt
        /\ \A c \in hist.created, d \in hist.created :
              c.id \in d.pred =>
                 \A i \in Positions(items, c.id), j \in Positions(items, d.id) : j < i

C9_Witness ==
    /\ Answers({"GET"})
    /\ last.res.status = 200
    /\ Len(last.res.items) = 2
    /\ last.res.items[1].menuId \in hist.touched
    /\ \E c \in hist.created, d \in hist.created :
          /\ c.id \in d.pred
          /\ last.res.items[1].menuId = d.id
          /\ last.res.items[2].menuId = c.id
          /\ ~Carries(last.res.items[1], d.body)

\* C10, as stated: a PUT answered 404 has not changed the table.
C10_Put404ChangedNothing ==
    (Answers({"PUT"}) /\ last.res.status = 404) => ~last.obs.changed

====
